---- MODULE Spec2Model ----
(***************************************************************************)
(* Model of mtc::inplace_stop_source / inplace_stop_token /                *)
(* inplace_stop_callback (include/multicore/stop_token.hpp and             *)
(* src/multicore/stop_token.cpp).                                          *)
(*                                                                         *)
(* One stop source, a fixed set of threads and a bounded set of callback   *)
(* objects.  Every thread owns a call stack of frames; a frame is one      *)
(* activation of request_stop(), of a callback constructor, of a callback  *)
(* destructor; a frame at pc "closure" is running the closure it invoked.   *)
(* A closure body is arbitrary user code: it may start any operation of    *)
(* the library (nested) or return.  Every atomic access to the state word  *)
(* is one step; thread-local work is grouped with the access that follows  *)
(* it, and the accesses made while the lock bit is held are grouped with   *)
(* the store that releases it.  Memory is sequentially consistent.         *)
(***************************************************************************)
EXTENDS Integers, Sequences, FiniteSets, TLC

\* ------------------------------------------------------------------ bounds
\* callback objects constructed, of which from an unassociated token
NumCallbacks == 3
MaxUnassociated == 1
\* calls of request_stop()
MaxStops == 2
\* library calls made by user code in all (constructions, destructions and
\* calls of request_stop())
MaxCalls == 5
\* nesting of library calls (a call made by a closure is nested in the call
\* that invoked the closure)
MaxDepth == 2
\* inplace_stop_token objects
NumTokens == 2
\* never_stop_token callbacks constructed
MaxNeverCallbacks == 2
\* wait() calls on the spinloop object in one behaviour
MaxWaits == 45
\* the spinloop object may start with its count up to WrapLead below 2^32
WrapLead == 3

Threads == {"A", "B"}
NoThread == "none"
Nodes == 1..NumCallbacks
\* the inplace_stop_token objects of the token specification
TokenIds == 1..NumTokens

\* --------------------------------------------------------- program constants
stop_requested_flag == 1
locked_flag == 2

Null == 0
\* previous_pointer values: Null, HeadSlot (= &callbacks) or n (= &node n . next)
HeadSlot == -1
\* removed values: NoFlag (= nullptr) or <<t, d>>: the local flag
\* removed_during_callback of frame d of thread t
NoFlag == <<NoThread, 0>>
\* inplace_stop_token::source: nullptr, or the address of the source
NoSource == 0
TheSource == 1
NoOp == <<"none", 0, 0>>
\* detail::spinloop::yield_threshold
yield_threshold == 20
\* uint32_t count is kept as two 16-bit halves: count = hi * HalfWord + lo
HalfWord == 65536

\* ------------------------------------------------------------------- state
VARIABLES
  state,        \* inplace_stop_source::state (atomic<uint8_t>)
  callbacks,    \* inplace_stop_source::callbacks (list head)
  notifying,    \* inplace_stop_source::notifying (thread id)
  cb,           \* the callback nodes: fields of inplace_stop_callback_base
  stack,        \* per thread: the call stack (sequence of frames)
  life,         \* per node: "unborn", "ctor", "alive", "dtor", "dead"
  fate,         \* per node: how registration went (history)
  born_stopped, \* per node: stop was already requested when its constructor began
  dtor_from,    \* per node: the node from whose closure it was destroyed
                \* (Null: not destroyed, or not from a closure)
  order,        \* sequence of nodes whose closure the broadcast invoked
  inlined,      \* per node: number of inline invocations by register_callback
  reg_order,    \* sequence of nodes in the order try_add_callback linked them
  rs_true,      \* number of request_stop() calls that returned true
  rs_false,     \* number of request_stop() calls that returned false
  ub,           \* a step touched a destroyed node or a dangling flag pointer
  ctor_from,    \* per node: the node from whose closure it was constructed
                \* (Null: not constructed yet, or not from a closure)
  tokens,       \* the inplace_stop_token objects: inplace_stop_token::source
  last_op,      \* the last operation on the token objects (history)
  never,        \* never_stop_token callbacks: constructed, closures invoked
  spin          \* a detail::spinloop object: its count, and what wait() did

vars == <<state, callbacks, notifying, cb, stack, life, fate, born_stopped, dtor_from,
          order, inlined, reg_order, rs_true, rs_false, ub, ctor_from,
          tokens, last_op, never, spin>>

source_vars == <<state, callbacks, notifying>>
hist_vars == <<order, inlined, reg_order, rs_true, rs_false>>
token_vars == <<tokens, last_op, never, spin>>

\* ----------------------------------------------------------- bit operations
StopRequestedBit(s) == (s % 2) = 1
LockedBit(s) == ((s \div 2) % 2) = 1
WithLock(s) == IF LockedBit(s) THEN s ELSE s + locked_flag

\* inplace_stop_source::stop_requested()
stop_requested == StopRequestedBit(state)

\* ------------------------------------------------------------------ frames
Frame(op, pc, c) ==
  [op |-> op, pc |-> pc, cb |-> c, old_state |-> 0,
   removed_during_callback |-> FALSE, notifying_thread |-> NoThread]

Depth(t) == Len(stack[t])
Top(t) == stack[t][Depth(t)]
Idle(t) == Depth(t) = 0
\* user code is running on t: top level, or the body of a closure
InUserCode(t) == IF Idle(t) THEN TRUE ELSE Top(t).pc = "closure"
At(t, op, pc) == ~Idle(t) /\ Top(t).op = op /\ Top(t).pc = pc
AtPc(t, pc) == ~Idle(t) /\ Top(t).pc = pc

SetTop(st, t, f) == [st EXCEPT ![t][Len(st[t])] = f]
PushFrame(st, t, f) == [st EXCEPT ![t] = Append(@, f)]
PopFrame(st, t) == [st EXCEPT ![t] = SubSeq(@, 1, Len(@) - 1)]

Count(seq, x) == Cardinality({i \in 1..Len(seq) : seq[i] = x})
Range(seq) == {seq[i] : i \in 1..Len(seq)}
Invoked(c) == inlined[c] + Count(order, c)

\* a step that reads or writes the nodes in S: touching a destroyed one is a
\* use after free
Touch(S) == ub \/ \E n \in S : n # Null /\ life[n] = "dead"

InitNode == [source |-> FALSE, next |-> Null, previous_pointer |-> Null,
             removed |-> NoFlag, completed |-> FALSE]

\* everything but the spinloop object
InitExceptSpin ==
  /\ state = 0
  /\ callbacks = Null
  /\ notifying = NoThread
  /\ cb = [n \in Nodes |-> InitNode]
  /\ stack = [t \in Threads |-> <<>>]
  /\ life = [n \in Nodes |-> "unborn"]
  /\ fate = [n \in Nodes |-> "none"]
  /\ born_stopped = [n \in Nodes |-> FALSE]
  /\ dtor_from = [n \in Nodes |-> Null]
  /\ order = <<>>
  /\ inlined = [n \in Nodes |-> 0]
  /\ reg_order = <<>>
  /\ rs_true = 0
  /\ rs_false = 0
  /\ ub = FALSE
  /\ ctor_from = [n \in Nodes |-> Null]
  /\ tokens = [k \in TokenIds |-> NoSource]
  /\ last_op = NoOp
  /\ never = [constructed |-> 0, invoked |-> 0]

\* detail::spinloop::spinloop(): count = 0 (calls, steps, yielded: history)
spinloop == [hi |-> 0, lo |-> 0, calls |-> 0, steps |-> 0, yielded |-> FALSE]

Init == InitExceptSpin /\ spin = spinloop

\* ------------------------------------------------ try_lock / lock / unlock
\* (variant) try_lock gives up on any non-zero state
try_lock_decide_fails_unless_zero(old) == IF old = 0 THEN "cas" ELSE "fail"

\* (variant) try_lock has no test of the requested flag: it spins until 0
try_lock_decide_spins_until_zero(old) == IF old = 0 THEN "cas" ELSE "load"

\* (variant) try_lock tests the lock bit before the requested flag
try_lock_decide_lock_first(old) ==
  IF LockedBit(old) THEN "load"
  ELSE IF StopRequestedBit(old) THEN "fail"
  ELSE "cas"

\* (variant) try_lock tests the lock bit only
try_lock_decide_lock_bit_only(old) == IF LockedBit(old) THEN "load" ELSE "cas"

\* inplace_stop_source::try_lock, from a value old of the state word just
\* obtained (by the load, or by a failed compare_exchange) to the next access:
\* "fail" (return false), "cas" (old_state == 0: go to the compare_exchange)
\* or "load" (spin.wait(), then load again)
try_lock_decide(old) ==
  IF StopRequestedBit(old) THEN "fail"
  ELSE IF old = 0 THEN "cas"
  ELSE "load"

\* (variant) try_lock returns false with the lock bit set
try_lock_fail_locks(cur) == WithLock(cur)

\* (variant) try_lock stores the requested flag before it returns false
try_lock_fail_store(cur) == stop_requested_flag

\* the state word after try_lock returned false from the value cur: try_lock
\* stores nothing on that path
try_lock_fail_state(cur) == cur

\* (variant) the compare_exchange stores whatever the state word holds
cas_succeeds_always(cur, expected) == TRUE

\* compare_exchange_weak(expected, desired) succeeds
cas_succeeds(cur, expected) == cur = expected

\* the value try_lock's compare_exchange stores
try_lock_desired(want_stop) ==
  IF want_stop THEN locked_flag + stop_requested_flag ELSE locked_flag

\* inplace_stop_source::lock, from a value old of the state word just obtained
\* to the next access: "load" (locked: spin.wait(), load again) or "cas"
lock_decide(old) == IF LockedBit(old) THEN "load" ELSE "cas"

\* the value lock's compare_exchange stores
lock_desired(old_state) == WithLock(old_state)

\* (variant) unlock stores 0 whatever it is given
unlock_clears_state(old_state) == 0

\* inplace_stop_source::unlock(old_state): the value stored
unlock(old_state) == old_state

\* (variant) request_stop does not release the lock
release_keeps_lock == locked_flag + stop_requested_flag

\* (variant) request_stop releases the lock the way unlock(0) does
release_like_unlock == unlock(0)

\* the value request_stop() stores to release the lock (before each
\* invocation and before returning)
release_requested == stop_requested_flag

\* --------------------------------------------------- intrusive list (pure)
\* *slot = v, where slot is a previous_pointer value
StoreSlot(nodes, head, slot, v) ==
  IF slot = HeadSlot
  THEN [cb |-> nodes, callbacks |-> v]
  ELSE [cb |-> [nodes EXCEPT ![slot].next = v], callbacks |-> head]

\* (variant) the node is linked behind the last node instead of in front
RECURSIVE LastFrom(_, _, _)
LastFrom(nodes, n, fuel) ==
  IF fuel = 0 \/ nodes[n].next = Null THEN n ELSE LastFrom(nodes, nodes[n].next, fuel - 1)

push_back(nodes, head, c) ==
  IF head = Null
  THEN [cb |-> [nodes EXCEPT ![c].next = Null, ![c].previous_pointer = HeadSlot],
        callbacks |-> c]
  ELSE LET l == LastFrom(nodes, head, NumCallbacks) IN
       [cb |-> [nodes EXCEPT ![c].next = Null, ![c].previous_pointer = l,
                             ![l].next = c],
        callbacks |-> head]

\* try_add_callback: link c in front of the list
push_front(nodes, head, c) ==
  LET n1 == [nodes EXCEPT ![c].next = head, ![c].previous_pointer = HeadSlot]
      n2 == IF head # Null THEN [n1 EXCEPT ![head].previous_pointer = c] ELSE n1
  IN [cb |-> n2, callbacks |-> c]

\* (variant) request_stop leaves the popped node's previous_pointer as it was
pop_front_keeps_back_link(nodes, head) ==
  LET nx == nodes[head].next
  IN [cb |-> IF nx # Null THEN [nodes EXCEPT ![nx].previous_pointer = HeadSlot] ELSE nodes,
      callbacks |-> nx]

\* (variant) the popped node's successor is not made the new head
pop_front_drop_rest(nodes, head) ==
  [cb |-> [nodes EXCEPT ![head].previous_pointer = Null], callbacks |-> Null]

\* request_stop: pop the head of the list
pop_front(nodes, head) ==
  LET nx == nodes[head].next
      n1 == [nodes EXCEPT ![head].previous_pointer = Null]
      n2 == IF nx # Null THEN [n1 EXCEPT ![nx].previous_pointer = HeadSlot] ELSE n1
  IN [cb |-> n2, callbacks |-> nx]

\* (variant) the node is unlinked as if it were the head
unlink_as_head(nodes, head, c) ==
  LET nx == nodes[c].next IN
    [cb |-> IF nx # Null THEN [nodes EXCEPT ![nx].previous_pointer = HeadSlot] ELSE nodes,
     callbacks |-> nx]

\* (variant) the successor's previous_pointer is not updated
unlink_no_back_link(nodes, head, c) ==
  StoreSlot(nodes, head, nodes[c].previous_pointer, nodes[c].next)

\* remove_callback: unlink c, which is in the list
unlink(nodes, head, c) ==
  LET nx == nodes[c].next
      r == StoreSlot(nodes, head, nodes[c].previous_pointer, nx)
  IN IF nx # Null
     THEN [r EXCEPT !.cb[nx].previous_pointer = nodes[c].previous_pointer]
     ELSE r

\* the list as the sequence of nodes reached from the head through next
RECURSIVE Walk(_, _, _)
Walk(nodes, n, fuel) ==
  IF n = Null \/ fuel = 0 THEN <<>>
  ELSE <<n>> \o Walk(nodes, nodes[n].next, fuel - 1)

ListSeq == Walk(cb, callbacks, NumCallbacks + 1)

\* (variant) register_callback has no fallback
after_try_add_no_fallback(added) == "ret"

\* ------------------------------------------------------ decisions of the code
\* (variant) register_callback invokes whatever try_add_callback returned
after_try_add_always_invoke(added) == "fallback"

\* register_callback: where the constructor goes after try_add_callback
\* returned `added`
after_try_add(added) == IF added THEN "ret" ELSE "fallback"

\* (variant) remove_callback never recognises the notifying thread
is_notifying_thread_never(t, notifying_thread) == FALSE

\* (variant) every removing thread is taken for the notifying thread
is_notifying_thread_always(t, notifying_thread) == TRUE

\* remove_callback: is the removing thread the notifying thread?
is_notifying_thread(t, notifying_thread) == t = notifying_thread

\* (variant) remove_callback does not wait for completed
wait_done_at_once(completed) == TRUE

\* remove_callback: the spin on completed ends
wait_done(completed) == completed

\* (variant) request_stop clears the source pointer of a node it has invoked
source_cleared_after_invoke(source) == FALSE

\* callback->source after request_stop invoked the node and found it not
\* removed: request_stop writes removed and completed only
source_after_invoke(source) == source

\* (variant) the notifier never stores completed
mark_completed_never(removed_during_callback) == FALSE

\* request_stop: the node is marked completed after its closure returned
mark_completed(removed_during_callback) == ~removed_during_callback

\* (variant) the destructor does not test the source pointer
needs_remove_always(source) == TRUE

\* ~inplace_stop_callback: remove_callback is called
needs_remove(source) == source

\* ---------------------------------------------------------------- spinloop
\* count + 1 in 32 bits, on the two halves
count_plus_one(hi, lo) ==
  IF lo + 1 < HalfWord THEN [hi |-> hi, lo |-> lo + 1]
  ELSE [hi |-> (hi + 1) % HalfWord, lo |-> 0]

\* (variant) wait() without the reset of a wrapped count
spin_wait_no_reset(hi, lo) ==
  LET n == count_plus_one(hi, lo) IN
    IF hi = 0 /\ lo < yield_threshold
    THEN [hi |-> n.hi, lo |-> n.lo, yield |-> FALSE]
    ELSE [hi |-> n.hi, lo |-> n.lo, yield |-> TRUE]

\* detail::spinloop::wait(): if (count++ < yield_threshold) {} else
\* { if (count == 0) count = yield_threshold; yield(); }
spin_wait(hi, lo) ==
  LET n == count_plus_one(hi, lo) IN
    IF hi = 0 /\ lo < yield_threshold
    THEN [hi |-> n.hi, lo |-> n.lo, yield |-> FALSE]
    ELSE IF n.hi = 0 /\ n.lo = 0
         THEN [hi |-> 0, lo |-> yield_threshold, yield |-> TRUE]
         ELSE [hi |-> n.hi, lo |-> n.lo, yield |-> TRUE]

\* the spinloop objects the spinloop specification starts from: a new one,
\* and ones that have been waited on almost 2^32 times
SpinStarts ==
  {spinloop} \cup
  {[hi |-> HalfWord - 1, lo |-> HalfWord - k, calls |-> yield_threshold + 1,
    steps |-> 0, yielded |-> TRUE] : k \in 1..WrapLead}

\* ------------------------------------------------------------------ tokens
\* inplace_stop_source::get_token: inplace_stop_token{this}
get_token == TheSource

\* (variant) the token does not test its pointer
token_stop_requested_unchecked(src) == stop_requested

\* inplace_stop_token::stop_requested
token_stop_requested(src) == src # NoSource /\ stop_requested

\* (variant) stop is possible whenever a source is referenced
token_stop_possible_while_associated(src) == src # NoSource

\* inplace_stop_token::stop_possible
token_stop_possible(src) == src # NoSource /\ ~stop_requested

\* inplace_stop_token::operator== (defaulted: compares the source pointers)
token_equal(a, b) == a = b

\* inplace_stop_token copy constructor / copy assignment (defaulted), k from j
copy_assign(toks, k, j) == [toks EXCEPT ![k] = toks[j]]

\* inplace_stop_token(inplace_stop_token &&other), the new object k from j
move_construct(toks, k, j) == [toks EXCEPT ![k] = toks[j], ![j] = NoSource]

\* (variant) move assignment without the test this != &other
move_assign_no_self_test(toks, k, j) == [toks EXCEPT ![k] = toks[j], ![j] = NoSource]

\* inplace_stop_token::operator=(inplace_stop_token &&other), k from j
move_assign(toks, k, j) ==
  IF k # j THEN [toks EXCEPT ![k] = toks[j], ![j] = NoSource] ELSE toks

\* inplace_stop_token::swap
swap(toks, k, j) == [toks EXCEPT ![k] = toks[j], ![j] = toks[k]]

\* never_stop_token::stop_possible, stop_requested, operator==
never_stop_possible == FALSE
never_stop_requested == FALSE
never_equal == TRUE

\* (variant) the callback constructor calls the closure it is given
never_callback_invokes(invoked) == invoked + 1

\* never_stop_token::callback::callback(never_stop_token, auto &&) {}: the
\* number of closure invocations after it, from the number before
never_callback(invoked) == invoked

RsFrames(t) == {d \in 1..Depth(t) : stack[t][d].op = "request_stop"}
StopsStarted ==
  rs_true + rs_false
  + Cardinality({<<t, d>> \in Threads \X (1..MaxDepth) : d \in RsFrames(t)})

CallsMade ==
  Cardinality({n \in Nodes : life[n] # "unborn"})
  + Cardinality({n \in Nodes : life[n] \in {"dtor", "dead"}})
  + StopsStarted

CanCall(t) == InUserCode(t) /\ Depth(t) < MaxDepth /\ CallsMade < MaxCalls

\* ================================================================= actions
\* ------------------------------------------------------- try_lock and lock
\* where the top frame of st[t] goes from a value v of the state word
\* obtained in try_lock
TryLockGo(st, t, v) ==
  LET f == st[t][Len(st[t])]
      d == try_lock_decide(v) IN
    IF d = "fail"
    THEN /\ state' = try_lock_fail_state(v)
         /\ IF f.op = "request_stop"
            THEN \* request_stop: if (!try_lock(true)) return false
                 /\ stack' = PopFrame(st, t)
                 /\ rs_false' = rs_false + 1
            ELSE \* try_add_callback: if (!try_lock(false)) return false
                 /\ stack' = SetTop(st, t, [f EXCEPT !.pc = after_try_add(FALSE)])
                 /\ UNCHANGED rs_false
    ELSE \* old_state is kept only where the compare_exchange will read it
         /\ UNCHANGED state
         /\ stack' = SetTop(st, t,
              [f EXCEPT !.old_state = IF d = "cas" THEN v ELSE 0,
                        !.pc = IF d = "cas" THEN "try_lock_cas" ELSE "try_lock"])
         /\ UNCHANGED rs_false

\* try_lock: old_state = state.load(relaxed) after spin.wait()
TryLockLoad(t) ==
  /\ AtPc(t, "try_lock")
  /\ TryLockGo(stack, t, state)
  /\ UNCHANGED <<callbacks, notifying, cb, life, fate, born_stopped, dtor_from,
                 order, inlined, reg_order, rs_true, ub>>
  /\ UNCHANGED <<ctor_from, token_vars>>

\* try_lock: state.compare_exchange_weak(old_state, desired) with old_state == 0
TryLockCas(t) ==
  /\ AtPc(t, "try_lock_cas")
  /\ IF cas_succeeds(state, Top(t).old_state)
     THEN /\ state' = try_lock_desired(Top(t).op = "request_stop")
          /\ stack' = SetTop(stack, t,
               [Top(t) EXCEPT !.pc = IF Top(t).op = "request_stop"
                                     THEN "notify" ELSE "add"])
          /\ UNCHANGED rs_false
     ELSE TryLockGo(stack, t, state)
  /\ UNCHANGED <<callbacks, notifying, cb, life, fate, born_stopped, dtor_from,
                 order, inlined, reg_order, rs_true, ub>>
  /\ UNCHANGED <<ctor_from, token_vars>>

\* where the top frame of st[t] goes from a value v of the state word
\* obtained in lock
LockGo(st, t, v) ==
  LET f == st[t][Len(st[t])] IN
    \* old_state is kept only where the compare_exchange will read it
    stack' = SetTop(st, t,
      [f EXCEPT !.old_state = IF lock_decide(v) = "cas" THEN v ELSE 0,
                !.pc = IF lock_decide(v) = "cas" THEN "lock_cas" ELSE "lock"])

\* lock: old_state = state.load(relaxed) after spin.wait()
LockLoad(t) ==
  /\ AtPc(t, "lock")
  /\ LockGo(stack, t, state)
  /\ UNCHANGED <<source_vars, cb, life, fate, born_stopped, dtor_from, hist_vars, ub>>
  /\ UNCHANGED <<ctor_from, token_vars>>

\* lock: state.compare_exchange_weak(old_state, old_state | locked_flag);
\* lock() returns old_state (to request_stop or to remove_callback)
LockCas(t) ==
  /\ AtPc(t, "lock_cas")
  /\ IF cas_succeeds(state, Top(t).old_state)
     THEN /\ state' = lock_desired(Top(t).old_state)
          /\ stack' = SetTop(stack, t,
               IF Top(t).op = "request_stop"
               THEN [Top(t) EXCEPT !.pc = "loop", !.old_state = 0]  \* (void)lock()
               ELSE [Top(t) EXCEPT !.pc = "remove"])
     ELSE /\ LockGo(stack, t, state)
          /\ UNCHANGED state
  /\ UNCHANGED <<callbacks, notifying, cb, life, fate, born_stopped, dtor_from, hist_vars, ub>>
  /\ UNCHANGED <<ctor_from, token_vars>>

\* ------------------------------------------------------------ request_stop
\* user code calls source.request_stop(): try_lock(true) loads the state word
CallRequestStop(t) ==
  /\ CanCall(t)
  /\ StopsStarted < MaxStops
  /\ TryLockGo(PushFrame(stack, t, Frame("request_stop", "try_lock", Null)), t, state)
  /\ UNCHANGED <<callbacks, notifying, cb, life, fate, born_stopped, dtor_from,
                 order, inlined, reg_order, rs_true, ub>>
  /\ UNCHANGED <<ctor_from, token_vars>>

\* request_stop: notifying = std::this_thread::get_id()
SetNotifying(t) ==
  /\ At(t, "request_stop", "notify")
  /\ notifying' = t
  /\ stack' = SetTop(stack, t, [Top(t) EXCEPT !.pc = "loop"])
  /\ UNCHANGED <<state, callbacks, cb, life, fate, born_stopped, dtor_from, hist_vars, ub>>
  /\ UNCHANGED <<ctor_from, token_vars>>

\* request_stop, lock held: the list is empty, release the lock and return
\* true; or pop the head and release the lock for the invocation
BroadcastLoop(t) ==
  /\ At(t, "request_stop", "loop")
  /\ state' = release_requested
  /\ \/ /\ callbacks = Null
        /\ stack' = PopFrame(stack, t)
        /\ rs_true' = rs_true + 1
        /\ UNCHANGED <<callbacks, cb, fate, ub>>
     \/ /\ callbacks # Null
        /\ LET c == callbacks
               r == pop_front(cb, callbacks) IN
             /\ cb' = r.cb
             /\ callbacks' = r.callbacks
             /\ fate' = [fate EXCEPT ![c] = "popped"]
             /\ ub' = Touch({c, cb[c].next})
             /\ stack' = SetTop(stack, t, [Top(t) EXCEPT !.cb = c, !.pc = "invoke"])
        /\ UNCHANGED rs_true
  /\ UNCHANGED <<notifying, life, born_stopped, dtor_from, order, inlined, reg_order, rs_false>>
  /\ UNCHANGED <<ctor_from, token_vars>>

\* request_stop, lock released: removed_during_callback = false;
\* callback->removed = &removed_during_callback; callback->invoke()
Invoke(t) ==
  /\ At(t, "request_stop", "invoke")
  /\ LET c == Top(t).cb IN
       /\ cb' = [cb EXCEPT ![c].removed = <<t, Depth(t)>>]
       /\ order' = Append(order, c)
       /\ ub' = Touch({c})
       /\ stack' = SetTop(stack, t, [Top(t) EXCEPT !.removed_during_callback = FALSE,
                                                   !.pc = "closure"])
  /\ UNCHANGED <<source_vars, life, fate, born_stopped, dtor_from, inlined, reg_order,
                 rs_true, rs_false>>
  /\ UNCHANGED <<ctor_from, token_vars>>

\* the closure invoked by the broadcast returns to request_stop
ClosureReturn(t) ==
  /\ At(t, "request_stop", "closure")
  /\ stack' = SetTop(stack, t, [Top(t) EXCEPT !.pc = "post"])
  /\ UNCHANGED <<source_vars, cb, life, fate, born_stopped, dtor_from, hist_vars, ub>>
  /\ UNCHANGED <<ctor_from, token_vars>>

\* request_stop, the closure returned: unless it was removed during the
\* callback, clear removed and store completed; then lock() loads the state
PostInvoke(t) ==
  /\ At(t, "request_stop", "post")
  /\ LET c == Top(t).cb IN
       IF mark_completed(Top(t).removed_during_callback)
       THEN /\ cb' = [cb EXCEPT ![c].removed = NoFlag, ![c].completed = TRUE,
                              ![c].source = source_after_invoke(@)]
            /\ ub' = Touch({c})
       ELSE UNCHANGED <<cb, ub>>
  /\ stack' = SetTop(stack, t, [Top(t) EXCEPT !.pc = "lock", !.cb = Null,
                                              !.removed_during_callback = FALSE])
  /\ UNCHANGED <<source_vars, life, fate, born_stopped, dtor_from, hist_vars>>
  /\ UNCHANGED <<ctor_from, token_vars>>

\* ------------------------------------------------- inplace_stop_callback
\* the next callback object to be constructed (objects are numbered in the
\* order their constructors begin)
NextUnborn == CHOOSE n \in Nodes : life[n] = "unborn" /\ \A m \in 1..(n - 1) : life[m] # "unborn"

Unassociated == {n \in Nodes : fate[n] = "unassoc"}

\* user code constructs a callback from a token: assoc says whether the token
\* references the source.  Base constructor, then register_callback():
\* source == nullptr returns at once, else try_add_callback -> try_lock(false)
\* loads the state word
CallConstructor(t, assoc) ==
  /\ CanCall(t)
  /\ \E n \in Nodes : life[n] = "unborn"
  /\ assoc \/ Cardinality(Unassociated) < MaxUnassociated
  /\ LET c == NextUnborn IN
       /\ cb' = [cb EXCEPT ![c] = [InitNode EXCEPT !.source = assoc]]
       /\ born_stopped' = [born_stopped EXCEPT ![c] = stop_requested]
       /\ ctor_from' = [ctor_from EXCEPT ![c] = IF Idle(t) THEN Null ELSE Top(t).cb]
       /\ IF assoc
          THEN /\ life' = [life EXCEPT ![c] = "ctor"]
               /\ fate' = [fate EXCEPT ![c] = "pending"]
               /\ TryLockGo(PushFrame(stack, t, Frame("ctor", "try_lock", c)), t, state)
          ELSE /\ life' = [life EXCEPT ![c] = "alive"]
               /\ fate' = [fate EXCEPT ![c] = "unassoc"]
               /\ UNCHANGED <<state, stack, rs_false>>
  /\ UNCHANGED <<callbacks, notifying, dtor_from, order, inlined, reg_order, rs_true, ub>>
  /\ UNCHANGED token_vars

\* try_add_callback, lock held: link the node in front, unlock(0), return
\* true; register_callback and the constructor then return
AddCallback(t) ==
  /\ At(t, "ctor", "add")
  /\ LET c == Top(t).cb
         r == push_front(cb, callbacks, c) IN
       /\ cb' = r.cb
       /\ callbacks' = r.callbacks
       /\ ub' = Touch({c, callbacks})
       /\ fate' = [fate EXCEPT ![c] = "listed"]
       /\ reg_order' = Append(reg_order, c)
       /\ IF after_try_add(TRUE) = "ret"
          THEN /\ life' = [life EXCEPT ![c] = "alive"]
               /\ stack' = PopFrame(stack, t)
          ELSE /\ stack' = SetTop(stack, t, [Top(t) EXCEPT !.pc = after_try_add(TRUE)])
               /\ UNCHANGED life
  /\ state' = unlock(0)
  /\ UNCHANGED <<notifying, born_stopped, dtor_from, order, inlined, rs_true, rs_false>>
  /\ UNCHANGED <<ctor_from, token_vars>>

\* register_callback, try_add_callback returned false: source = nullptr; invoke()
InvokeInline(t) ==
  /\ At(t, "ctor", "fallback")
  /\ LET c == Top(t).cb IN
       /\ cb' = [cb EXCEPT ![c].source = FALSE]
       /\ inlined' = [inlined EXCEPT ![c] = @ + 1]
       /\ fate' = [fate EXCEPT ![c] = IF @ = "pending" THEN "inline" ELSE @]
       /\ stack' = SetTop(stack, t, [Top(t) EXCEPT !.pc = "closure"])
  /\ UNCHANGED <<source_vars, life, born_stopped, dtor_from, order, reg_order,
                 rs_true, rs_false, ub>>
  /\ UNCHANGED <<ctor_from, token_vars>>

\* the closure invoked by register_callback returns, and with it
\* register_callback and the constructor
InlineClosureReturn(t) ==
  /\ At(t, "ctor", "closure")
  /\ life' = [life EXCEPT ![Top(t).cb] = "alive"]
  /\ stack' = PopFrame(stack, t)
  /\ UNCHANGED <<source_vars, cb, fate, born_stopped, dtor_from, hist_vars, ub>>
  /\ UNCHANGED <<ctor_from, token_vars>>

\* user code destroys callback c: if (source != nullptr)
\* source->remove_callback(this), where lock() loads the state word
CallDestructor(t, c) ==
  /\ CanCall(t)
  /\ life[c] = "alive"
  /\ dtor_from' = [dtor_from EXCEPT ![c] = IF Idle(t) THEN Null ELSE Top(t).cb]
  /\ IF needs_remove(cb[c].source)
     THEN /\ life' = [life EXCEPT ![c] = "dtor"]
          /\ LockGo(PushFrame(stack, t, Frame("dtor", "lock", c)), t, state)
     ELSE /\ life' = [life EXCEPT ![c] = "dead"]
          /\ UNCHANGED stack
  /\ UNCHANGED <<source_vars, cb, fate, born_stopped, hist_vars, ub>>
  /\ UNCHANGED <<ctor_from, token_vars>>

\* remove_callback, lock held: the node is in the list: unlink it,
\* unlock(old_state), return; or it is not: read notifying, unlock(old_state)
RemoveCallback(t) ==
  /\ At(t, "dtor", "remove")
  /\ state' = unlock(Top(t).old_state)
  /\ LET c == Top(t).cb IN
       \/ /\ cb[c].previous_pointer # Null
          /\ LET r == unlink(cb, callbacks, c)
                 pp == cb[c].previous_pointer IN
               /\ cb' = r.cb
               /\ callbacks' = r.callbacks
               /\ ub' = Touch({cb[c].next, IF pp = HeadSlot THEN Null ELSE pp})
          /\ fate' = [fate EXCEPT ![c] = "unlinked"]
          /\ life' = [life EXCEPT ![c] = "dead"]
          /\ stack' = PopFrame(stack, t)
       \/ /\ cb[c].previous_pointer = Null
          /\ stack' = SetTop(stack, t, [Top(t) EXCEPT !.notifying_thread = notifying,
                                                      !.old_state = 0,
                                                      !.pc = "not_in_list"])
          /\ UNCHANGED <<callbacks, cb, fate, life, ub>>
  /\ UNCHANGED <<notifying, born_stopped, dtor_from, hist_vars>>
  /\ UNCHANGED <<ctor_from, token_vars>>

\* the flag a removed pointer addresses is still there: the frame of the
\* request_stop() call that is invoking node c
FlagLive(p, c) ==
  /\ p[1] \in Threads
  /\ p[2] \in 1..Len(stack[p[1]])
  /\ stack[p[1]][p[2]].op = "request_stop"
  /\ stack[p[1]][p[2]].pc = "closure"
  /\ stack[p[1]][p[2]].cb = c

\* remove_callback, node not in the list, lock released: on the notifying
\* thread set *removed (if removed is set) and return; else go and wait
RemoveNotInList(t) ==
  /\ At(t, "dtor", "not_in_list")
  /\ LET c == Top(t).cb
         p == cb[c].removed IN
       \/ /\ is_notifying_thread(t, Top(t).notifying_thread)
          /\ \/ /\ p # NoFlag
                /\ FlagLive(p, c)
                /\ stack' = PopFrame(
                     [stack EXCEPT ![p[1]][p[2]].removed_during_callback = TRUE], t)
                /\ UNCHANGED ub
             \/ /\ p # NoFlag
                /\ ~FlagLive(p, c)
                /\ stack' = PopFrame(stack, t)
                /\ ub' = TRUE
             \/ /\ p = NoFlag
                /\ stack' = PopFrame(stack, t)
                /\ UNCHANGED ub
          /\ life' = [life EXCEPT ![c] = "dead"]
       \/ /\ ~is_notifying_thread(t, Top(t).notifying_thread)
          /\ stack' = SetTop(stack, t, [Top(t) EXCEPT !.pc = "wait",
                                                      !.notifying_thread = NoThread])
          /\ UNCHANGED <<life, ub>>
  /\ UNCHANGED <<source_vars, cb, fate, born_stopped, dtor_from, hist_vars>>
  /\ UNCHANGED <<ctor_from, token_vars>>

\* remove_callback on another thread than the notifying one:
\* while (!completed.load(acquire)) spin.wait(); then return
WaitCompleted(t) ==
  /\ At(t, "dtor", "wait")
  /\ wait_done(cb[Top(t).cb].completed)
  /\ life' = [life EXCEPT ![Top(t).cb] = "dead"]
  /\ stack' = PopFrame(stack, t)
  /\ UNCHANGED <<source_vars, cb, fate, born_stopped, dtor_from, hist_vars, ub>>
  /\ UNCHANGED <<ctor_from, token_vars>>

\* ------------------------------------------------------- token operations
lib_vars == <<state, callbacks, notifying, cb, stack, life, fate, born_stopped,
              dtor_from, ctor_from, order, inlined, reg_order, rs_true, rs_false, ub>>

\* inplace_stop_token k is (re)made by the default constructor
TokenDefault(k) ==
  /\ tokens' = [tokens EXCEPT ![k] = NoSource]
  /\ last_op' = <<"default", k, k>>
  /\ UNCHANGED <<lib_vars, never, spin>>

\* k = source.get_token()
GetToken(k) ==
  /\ tokens' = [tokens EXCEPT ![k] = get_token]
  /\ last_op' = <<"get", k, k>>
  /\ UNCHANGED <<lib_vars, never, spin>>

\* k is copy-constructed or copy-assigned from j
TokenCopy(k, j) ==
  /\ tokens' = copy_assign(tokens, k, j)
  /\ last_op' = <<"copy", k, j>>
  /\ UNCHANGED <<lib_vars, never, spin>>

\* k is move-constructed from another object j
TokenMoveConstruct(k, j) ==
  /\ k # j
  /\ tokens' = move_construct(tokens, k, j)
  /\ last_op' = <<"move_construct", k, j>>
  /\ UNCHANGED <<lib_vars, never, spin>>

\* k = std::move(j), j may be k itself
TokenMoveAssign(k, j) ==
  /\ tokens' = move_assign(tokens, k, j)
  /\ last_op' = <<"move_assign", k, j>>
  /\ UNCHANGED <<lib_vars, never, spin>>

\* k.swap(j)
TokenSwap(k, j) ==
  /\ tokens' = swap(tokens, k, j)
  /\ last_op' = <<"swap", k, j>>
  /\ UNCHANGED <<lib_vars, never, spin>>

\* a never_stop_token::callback is constructed with some closure
NeverStopCallback ==
  /\ never.constructed < MaxNeverCallbacks
  /\ never' = [constructed |-> never.constructed + 1,
               invoked |-> never_callback(never.invoked)]
  /\ UNCHANGED <<lib_vars, tokens, last_op, spin>>

\* spin.wait(); calls counts the wait() calls up to yield_threshold + 1
SpinWait ==
  /\ spin.steps < MaxWaits
  /\ LET r == spin_wait(spin.hi, spin.lo) IN
       spin' = [hi |-> r.hi, lo |-> r.lo,
                calls |-> IF spin.calls <= yield_threshold THEN spin.calls + 1
                          ELSE spin.calls,
                steps |-> spin.steps + 1,
                yielded |-> r.yield]
  /\ UNCHANGED <<lib_vars, tokens, last_op, never>>

\* ------------------------------------------------------------ specification
Step(t) ==
  \/ CallRequestStop(t)
  \/ TryLockLoad(t)
  \/ TryLockCas(t)
  \/ SetNotifying(t)
  \/ BroadcastLoop(t)
  \/ Invoke(t)
  \/ ClosureReturn(t)
  \/ PostInvoke(t)
  \/ LockLoad(t)
  \/ LockCas(t)
  \/ \E assoc \in BOOLEAN : CallConstructor(t, assoc)
  \/ AddCallback(t)
  \/ InvokeInline(t)
  \/ InlineClosureReturn(t)
  \/ \E c \in Nodes : CallDestructor(t, c)
  \/ RemoveCallback(t)
  \/ RemoveNotInList(t)
  \/ WaitCompleted(t)

Next == \E t \in Threads : Step(t)

Spec == Init /\ [][Next]_vars

\* a step of thread t inside the library or the return of a closure: what a
\* fair scheduler lets a thread do, provided every closure returns
Progress(t) ==
  \/ TryLockLoad(t)
  \/ TryLockCas(t)
  \/ SetNotifying(t)
  \/ BroadcastLoop(t)
  \/ Invoke(t)
  \/ ClosureReturn(t)
  \/ PostInvoke(t)
  \/ LockLoad(t)
  \/ LockCas(t)
  \/ AddCallback(t)
  \/ InvokeInline(t)
  \/ InlineClosureReturn(t)
  \/ RemoveCallback(t)
  \/ RemoveNotInList(t)
  \/ WaitCompleted(t)

\* the same program under fair scheduling of every thread
FairSpec == Init /\ [][Next]_vars /\ \A t \in Threads : WF_vars(Progress(t))

\* the token specification: token objects are made, copied, moved and swapped
\* while threads call request_stop() on the source (no callback is registered,
\* so try_lock never finds the lock bit set without the stop_requested flag
\* and never spins)
TokenNext ==
  \/ \E t \in Threads :
       \/ CallRequestStop(t)
       \/ TryLockCas(t)
       \/ SetNotifying(t)
       \/ BroadcastLoop(t)
  \/ \E k \in TokenIds :
       \/ TokenDefault(k)
       \/ GetToken(k)
  \/ \E k, j \in TokenIds :
       \/ TokenCopy(k, j)
       \/ TokenMoveConstruct(k, j)
       \/ TokenMoveAssign(k, j)
       \/ TokenSwap(k, j)
  \/ NeverStopCallback

TokenSpec == Init /\ [][TokenNext]_vars

\* the spinloop specification: wait() is called again and again on one
\* spinloop object
SpinInit == InitExceptSpin /\ spin \in SpinStarts
SpinNext == SpinWait
SpinSpec == SpinInit /\ [][SpinNext]_vars

\* ================================================================== claims
Reverse(seq) == [i \in 1..Len(seq) |-> seq[Len(seq) + 1 - i]]
IsPrefix(a, b) == Len(a) <= Len(b) /\ \A i \in 1..Len(a) : a[i] = b[i]
AllIdle == \A t \in Threads : Idle(t)

\* the frames of request_stop() calls whose try_lock(true) succeeded: they
\* execute the broadcast
BroadcastFrames ==
  {<<t, d>> \in Threads \X (1..MaxDepth) :
     /\ d \in RsFrames(t)
     /\ stack[t][d].pc \notin {"try_lock", "try_lock_cas"}}
RsInFlight == \E t \in Threads : RsFrames(t) # {}

\* C1: of all request_stop() calls on the source at most one has passed
\* try_lock(true), i.e. executes the broadcast loop or has returned true; any
\* call that returned false did so because such a winner exists; the stop
\* flag is set exactly when there is a winner; and once every call has
\* returned exactly one of them returned true.
C1_ExactlyOneWinner ==
  /\ rs_true + Cardinality(BroadcastFrames) <= 1
  /\ rs_false > 0 => rs_true + Cardinality(BroadcastFrames) = 1
  /\ stop_requested <=> rs_true + Cardinality(BroadcastFrames) = 1
  /\ (~RsInFlight /\ rs_true + rs_false > 0) => rs_true = 1

C1_Witness == AllIdle /\ rs_true = 1 /\ rs_false >= 1

\* C2: while no callback has been destroyed, the broadcast invokes the
\* registered callbacks most recently registered first: the invocations so far
\* are a prefix of the reversed registration order, and when request_stop()
\* has returned true every registered callback was invoked exactly once, in
\* exactly that order.
NoneDestroyed == \A n \in Nodes : life[n] \notin {"dtor", "dead"}

C2_ReverseRegistrationOrder ==
  NoneDestroyed =>
    /\ IsPrefix(order, Reverse(reg_order))
    /\ rs_true = 1 =>
         /\ order = Reverse(reg_order)
         /\ \A c \in Range(reg_order) : Invoked(c) = 1

C2_Witness ==
  /\ NoneDestroyed
  /\ rs_true = 1
  /\ Len(reg_order) = NumCallbacks
  /\ order = Reverse(reg_order)

\* C3: no closure is ever invoked more than once, counting the inline
\* invocations by register_callback and the invocations by the broadcast.
C3_AtMostOnce == \A c \in Nodes : Invoked(c) <= 1

C3_Witness ==
  \E c, d \in Nodes :
    /\ inlined[c] = 1 /\ Count(order, c) = 0
    /\ inlined[d] = 0 /\ Count(order, d) = 1

\* C4: a callback constructed from an associated token whose constructor has
\* returned and which has not been destroyed has, once the request_stop()
\* call that won has returned too, run its closure exactly once: through the
\* broadcast (and not inline) if try_add_callback linked it, inline (and not
\* through the broadcast) if try_add_callback failed.
C4_RacingConstructionRunsOnce ==
  \A c \in Nodes :
    (life[c] = "alive" /\ fate[c] # "unassoc" /\ rs_true = 1) =>
      /\ Invoked(c) = 1
      /\ fate[c] \in {"popped", "inline"}
      /\ fate[c] = "popped" => (c \in Range(reg_order) /\ Count(order, c) = 1)
      /\ fate[c] = "inline" => (c \notin Range(reg_order) /\ inlined[c] = 1)

\* the constructor began before stop was requested and still lost the race:
\* try_add_callback failed, so request_stop() won while it ran; another
\* callback was linked in time and went through the broadcast
C4_Witness ==
  /\ AllIdle
  /\ rs_true = 1
  /\ \E c, d \in Nodes :
       /\ life[c] = "alive" /\ fate[c] = "inline" /\ ~born_stopped[c]
       /\ inlined[c] = 1 /\ Count(order, c) = 0
       /\ life[d] = "alive" /\ fate[d] = "popped" /\ Invoked(d) = 1

\* C5: no step of the broadcast (pop, set removed, invoke, clear removed,
\* store completed) and no list operation of another call reads or writes a
\* callback node whose destructor has returned, and no removed pointer is
\* followed to a flag that is gone.
C5_NoUseAfterDestruction == ~ub

\* a callback was destroyed by another thread while the broadcast was still
\* going on: the broadcast had popped it and completed it, nothing else was
\* invoked yet and the notifier is back in its loop
C5_Witness ==
  \E c \in Nodes : \E t \in Threads :
    /\ life[c] = "dead" /\ fate[c] = "popped" /\ dtor_from[c] = Null
    /\ order = <<c>> /\ cb[c].completed
    /\ Depth(t) = 1 /\ Top(t).op = "request_stop" /\ notifying = t
    /\ ~ub

\* the thread destroying c, and whether a request_stop() call is between
\* popping c and having finished with it
Destroyer(c) == CHOOSE t \in Threads : ~Idle(t) /\ Top(t).op = "dtor" /\ Top(t).cb = c
BusyWith(c) ==
  \E t \in Threads : \E d \in RsFrames(t) :
    stack[t][d].cb = c /\ stack[t][d].pc \in {"invoke", "closure", "post"}
DtorReturns(c) == life[c] = "dtor" /\ life'[c] = "dead"

\* C6: a destructor running on another thread than the notifying one, for a
\* callback the broadcast has popped, returns only in a state where the
\* closure has been invoked and has returned and the notifier has stored
\* completed.
C6_DestructorWaitsForCompletion ==
  [][\A c \in Nodes :
       (DtorReturns(c) /\ fate[c] = "popped" /\ Destroyer(c) # notifying) =>
         (cb[c].completed /\ ~BusyWith(c) /\ Count(order, c) = 1)]_vars

\* thread A waits in the destructor of c while thread B runs c's closure
C6_Witness ==
  \E a, b \in Threads : \E c \in Nodes :
    /\ a # b
    /\ At(a, "dtor", "wait") /\ Top(a).cb = c
    /\ notifying = b
    /\ At(b, "request_stop", "closure") /\ Top(b).cb = c
    /\ ~cb[c].completed

\* the threads between a successful lock()/try_lock() and the store that
\* releases the lock
LockHolders ==
  {t \in Threads : ~Idle(t) /\ Top(t).pc \in {"notify", "loop", "add", "remove"}}
\* t runs a destructor called from a closure that the broadcast invoked on t
DtorInBroadcastClosure(t) ==
  /\ Depth(t) >= 2
  /\ Top(t).op = "dtor"
  /\ stack[t][Depth(t) - 1].op = "request_stop"
  /\ stack[t][Depth(t) - 1].pc = "closure"

\* C7: a destructor called on the notifying thread from inside a closure of
\* the broadcast cannot block: it never waits for a completed flag, and
\* whenever the lock bit is set the lock is held by the destructor itself or
\* by another thread, which is about to release it (the notifier does not
\* hold it while the closure runs); a callback unlinked by a destructor is not in the list and
\* is never invoked; and when request_stop() has returned true the list is
\* empty and every callback the broadcast popped was invoked exactly once.
C7_SiblingDestroyedInClosure ==
  /\ \A t \in Threads :
       DtorInBroadcastClosure(t) =>
         /\ Top(t).pc # "wait"
         /\ LockedBit(state) =>
              \/ Top(t).pc = "remove"
              \/ \E u \in LockHolders : u # t
  /\ \A s \in Nodes :
       fate[s] = "unlinked" => (Invoked(s) = 0 /\ s \notin Range(ListSeq))
  /\ rs_true = 1 =>
       /\ callbacks = Null
       /\ \A c \in Nodes : fate[c] # "listed"
       /\ \A c \in Nodes : fate[c] = "popped" => Count(order, c) = 1

\* the closure of h, run by the broadcast, destroyed its sibling s, which was
\* still in the list; the broadcast went on with the remaining callback r
C7_Witness ==
  \E s, h, r \in Nodes :
    /\ s # h /\ r # s /\ r # h
    /\ life[s] = "dead" /\ fate[s] = "unlinked" /\ dtor_from[s] = h
    /\ fate[h] = "popped" /\ fate[r] = "popped"
    /\ order = <<h, r>>
    /\ Invoked(s) = 0
    /\ rs_true = 1

\* C8: a callback whose constructor began (from an associated token) when
\* stop was already requested is never linked into the list and never invoked
\* by the broadcast; its closure has been invoked inline exactly once when
\* the constructor has returned, and never again afterwards; its destructor
\* does not call remove_callback.
C8_ConstructedAfterStop ==
  \A c \in Nodes :
    (born_stopped[c] /\ fate[c] \notin {"none", "unassoc"}) =>
      /\ fate[c] \in {"pending", "inline"}
      /\ c \notin Range(reg_order)
      /\ c \notin Range(ListSeq)
      /\ Count(order, c) = 0
      /\ inlined[c] <= 1
      /\ life[c] \in {"alive", "dead"} => inlined[c] = 1
      /\ life[c] # "dtor"

C8_Witness ==
  \E c \in Nodes :
    /\ born_stopped[c] /\ fate[c] = "inline"
    /\ life[c] = "dead"
    /\ Invoked(c) = 1

\* seq without the element x
RECURSIVE Without(_, _)
Without(seq, x) ==
  IF seq = <<>> THEN <<>>
  ELSE IF Head(seq) = x THEN Without(Tail(seq), x)
  ELSE <<Head(seq)>> \o Without(Tail(seq), x)

Listed(c) == fate[c] = "listed"

\* C9: the step of a destructor that unlinks a registered callback removes
\* exactly that node from the list, keeps the other nodes in their order and
\* invokes nothing; a destructor that returns while no stop is requested, for
\* a callback that was linked, has unlinked it; an unlinked callback is never
\* invoked and never in the list; and the list always holds exactly the
\* callbacks that are linked and neither unlinked nor popped, most recently
\* registered first.
C9_DestroyBeforeStop ==
  /\ [][\A c \in Nodes :
          /\ (fate[c] = "listed" /\ fate'[c] = "unlinked") =>
               /\ c \in Range(ListSeq)
               /\ ListSeq' = Without(ListSeq, c)
               /\ order' = order /\ inlined' = inlined
          /\ (DtorReturns(c) /\ ~StopRequestedBit(state') /\ c \in Range(reg_order)) =>
               fate'[c] = "unlinked"]_vars
  /\ [](\A c \in Nodes : fate[c] = "unlinked" => Invoked(c) = 0)
  /\ [](ListSeq = Reverse(SelectSeq(reg_order, Listed)))

\* the middle one of three registered callbacks was destroyed before the stop
\* request; the broadcast then invoked the other two, newest first
C9_Witness ==
  \E a, b, c \in Nodes :
    /\ reg_order = <<a, b, c>>
    /\ fate[b] = "unlinked" /\ life[b] = "dead" /\ Invoked(b) = 0
    /\ order = <<c, a>>
    /\ rs_true = 1

\* a step of a request_stop() call that is in try_lock(true) and does not
\* acquire the lock: the call, a load, a failed compare_exchange, the return
\* of false
InTryLock(st, t) ==
  /\ Len(st[t]) > 0
  /\ st[t][Len(st[t])].op = "request_stop"
  /\ st[t][Len(st[t])].pc \in {"try_lock", "try_lock_cas"}
LosingStep ==
  \/ rs_false' # rs_false
  \/ \E t \in Threads :
       /\ stack'[t] # stack[t]
       /\ InTryLock(stack, t) \/ InTryLock(stack', t)
       /\ ~(Len(stack'[t]) > 0 /\ stack'[t][Len(stack'[t])].pc = "notify")

\* C10: no step of a request_stop() call that returns false (it never gets
\* past try_lock) changes the state word, the list head, the notifying
\* thread or any callback node, or invokes a closure.
C10_FalseReturnHasNoEffect ==
  [][LosingStep => UNCHANGED <<state, callbacks, notifying, cb, order, inlined,
                               life, fate, rs_true>>]_vars

\* a request_stop() call returned false while the winner was still running a
\* closure of its broadcast
C10_Witness ==
  /\ rs_false >= 1
  /\ \E t \in Threads : At(t, "request_stop", "closure")


\* C11: in every state in which some request_stop() call has returned (true
\* or false) stop_requested() is true, and no step clears the stop_requested
\* flag once it is set: not the unlock(0) of a registration, not the
\* unlock(old_state) of a removal, nor any other store.
C11_StopRequestedIsStable ==
  /\ [](rs_true + rs_false >= 1 => stop_requested)
  /\ [][StopRequestedBit(state) => StopRequestedBit(state')]_vars

\* stop is requested, a request_stop() call has returned false, and a
\* destructor has locked and unlocked the source after the flag was set
C11_Witness ==
  /\ stop_requested
  /\ rs_false >= 1
  /\ \E c \in Nodes : life[c] = "dead" /\ fate[c] = "unlinked" /\ dtor_from[c] # Null


\* C12: in every state, for every token object, stop_requested() is true iff
\* the token references the source and the source has stop requested: a
\* default-constructed or moved-from token reports false, a token of the
\* source reports false while no request_stop() call has begun and true once
\* a request_stop() call has returned.
C12_TokenStopRequested ==
  \A k \in TokenIds :
    /\ token_stop_requested(tokens[k]) <=>
         (tokens[k] = TheSource /\ StopRequestedBit(state))
    /\ tokens[k] = NoSource => ~token_stop_requested(tokens[k])
    /\ (tokens[k] = TheSource /\ StopsStarted = 0) => ~token_stop_requested(tokens[k])
    /\ (tokens[k] = TheSource /\ rs_true + rs_false >= 1) => token_stop_requested(tokens[k])

\* request_stop() has returned true; one token references the source and
\* reports true, another references none and reports false
C12_Witness ==
  /\ rs_true = 1
  /\ \E k, j \in TokenIds :
       /\ tokens[k] = TheSource /\ token_stop_requested(tokens[k])
       /\ tokens[j] = NoSource /\ ~token_stop_requested(tokens[j])


\* C13: in every state, for every token object, stop_possible() is true iff
\* the token references the source and the source has no stop requested: it
\* is false for a token that references no source, true for a token of the
\* source while no request_stop() call has begun, false once request_stop()
\* has returned true; and for a token object that keeps its value, once
\* stop_possible() is false it is false after every step.
C13_TokenStopPossible ==
  /\ [](\A k \in TokenIds :
          /\ token_stop_possible(tokens[k]) <=>
               (tokens[k] = TheSource /\ ~StopRequestedBit(state))
          /\ tokens[k] = NoSource => ~token_stop_possible(tokens[k])
          /\ (tokens[k] = TheSource /\ StopsStarted = 0) => token_stop_possible(tokens[k])
          /\ rs_true >= 1 => ~token_stop_possible(tokens[k]))
  /\ [][\A k \in TokenIds :
          (tokens'[k] = tokens[k] /\ ~token_stop_possible(tokens[k]))
            => ~(token_stop_possible(tokens[k]))']_vars

\* a token taken from the source reports stop_possible() false after
\* request_stop() returned true
C13_Witness ==
  /\ rs_true = 1
  /\ \E k \in TokenIds :
       /\ last_op = <<"get", k, k>>
       /\ tokens[k] = TheSource
       /\ ~token_stop_possible(tokens[k])


\* a step of an operation on the token objects
TokenOpStep == <<tokens, last_op>>' # <<tokens, last_op>>
\* every token object but those in S keeps its source
OtherTokensKept(S) == \A i \in TokenIds \ S : tokens'[i] = tokens[i]

\* C14: a copy makes the target reference the source of the original and
\* leaves the original (and every other token) as it was; a move construction
\* or a move assignment from another token gives the target the source of
\* the other token and leaves that token without source, with stop_possible()
\* and stop_requested() both false; a move assignment of a token from itself
\* changes nothing; and two tokens compare equal iff they reference the same
\* source or both reference none.
C14_TokenCopyMoveEqual ==
  /\ [][\A k, j \in TokenIds :
          /\ (TokenOpStep /\ last_op' = <<"copy", k, j>>) =>
               /\ tokens'[k] = tokens[j]
               /\ OtherTokensKept({k})
          /\ (TokenOpStep /\ last_op'[1] \in {"move_construct", "move_assign"}
                /\ last_op'[2] = k /\ last_op'[3] = j /\ k # j) =>
               /\ tokens'[k] = tokens[j]
               /\ tokens'[j] = NoSource
               /\ ~(token_stop_possible(tokens[j]))'
               /\ ~(token_stop_requested(tokens[j]))'
               /\ OtherTokensKept({k, j})
          /\ (TokenOpStep /\ last_op' = <<"move_assign", k, k>>) =>
               tokens' = tokens]_vars
  /\ [](\A k, j \in TokenIds :
          token_equal(tokens[k], tokens[j]) <=>
            \/ tokens[k] = NoSource /\ tokens[j] = NoSource
            \/ tokens[k] = TheSource /\ tokens[j] = TheSource)

\* a token of the source was just move-assigned from itself and still
\* references the source, while another token is without source
C14_Witness ==
  \E k, j \in TokenIds :
    /\ last_op = <<"move_assign", k, k>>
    /\ tokens[k] = TheSource
    /\ tokens[j] = NoSource
    /\ ~token_equal(tokens[k], tokens[j])


\* C15: in every state a never_stop_token reports stop_possible() false and
\* stop_requested() false, two never_stop_tokens compare equal, and no
\* closure given to a never_stop_token callback has been invoked; and the
\* step that constructs such a callback changes neither the source, nor any
\* callback node or token, nor the record of invocations.
C15_NeverStopToken ==
  /\ [](/\ ~never_stop_possible
        /\ ~never_stop_requested
        /\ never_equal
        /\ never.invoked = 0)
  /\ [][never.constructed' # never.constructed =>
          /\ never.invoked' = never.invoked
          /\ UNCHANGED <<lib_vars, tokens>>]_vars

\* never_stop_token callbacks were constructed and the source has stop
\* requested: their closures were not invoked
C15_Witness ==
  /\ never.constructed = MaxNeverCallbacks
  /\ never.invoked = 0
  /\ rs_true = 1


RunsClosure(t) == \E d \in 1..Depth(t) : stack[t][d].pc = "closure"

\* C17: in every state in which a thread runs a closure (invoked by the
\* broadcast or inline by a constructor), the invoking call does not hold the
\* lock: if the lock bit is set, then it is held by another thread, or by a
\* destructor that the closure itself called and that acquired it after the
\* closure began.
C17_NoClosureUnderLock ==
  \A t \in Threads :
    (RunsClosure(t) /\ LockedBit(state)) =>
      \/ \E u \in LockHolders : u # t
      \/ t \in LockHolders /\ Top(t).op = "dtor"

\* one thread runs a closure of the broadcast, another runs a closure inline
\* in a constructor, and the lock is free
C17_Witness ==
  \E t, u \in Threads :
    /\ At(t, "request_stop", "closure")
    /\ At(u, "ctor", "closure")
    /\ ~LockedBit(state)


\* t runs a constructor called from a closure that the broadcast invoked on t
CtorInBroadcastClosure(t) ==
  /\ Depth(t) >= 2
  /\ Top(t).op = "ctor"
  /\ stack[t][Depth(t) - 1].op = "request_stop"
  /\ stack[t][Depth(t) - 1].pc = "closure"
\* n was constructed, from a token of the source, by the closure of a callback
\* that the broadcast invoked
BornInBroadcast(n) ==
  /\ ctor_from[n] # Null
  /\ fate[ctor_from[n]] = "popped"
  /\ fate[n] # "unassoc"

\* C18: a constructor called on the notifying thread from a closure of the
\* broadcast never spins on the lock and never links its node: it goes
\* straight to the inline invocation; the new node is never in the list and
\* never invoked by the broadcast, its closure has run inline exactly once
\* when the constructor has returned; and when request_stop() has returned
\* true the list is empty and every callback the broadcast popped was invoked
\* exactly once.
C18_ConstructedInClosure ==
  /\ \A t \in Threads :
       CtorInBroadcastClosure(t) => Top(t).pc \in {"fallback", "closure"}
  /\ \A n \in Nodes :
       BornInBroadcast(n) =>
         /\ fate[n] \in {"pending", "inline"}
         /\ n \notin Range(ListSeq)
         /\ n \notin Range(reg_order)
         /\ Count(order, n) = 0
         /\ inlined[n] <= 1
         /\ life[n] # "ctor" => inlined[n] = 1
  /\ rs_true = 1 =>
       /\ ListSeq = <<>>
       /\ \A c \in Nodes : fate[c] = "popped" => Invoked(c) = 1

\* the closure of h, run by the broadcast, constructed n, whose closure ran
\* inline; the broadcast then invoked the remaining callback r
C18_Witness ==
  \E h, r, n \in Nodes :
    /\ ctor_from[n] = h
    /\ fate[n] = "inline" /\ life[n] = "alive" /\ Invoked(n) = 1
    /\ order = <<h, r>>
    /\ rs_true = 1


\* the closure of c has run to its end: inline in the constructor, or in the
\* broadcast, which then stored completed
Fired(c) ==
  \/ fate[c] = "inline" /\ life[c] # "ctor"
  \/ fate[c] = "popped" /\ cb[c].completed
\* a step of the destructor of c, on thread t
DtorStep(t, c) ==
  /\ stack'[t] # stack[t] \/ life'[c] # life[c]
  /\ \/ At(t, "dtor", Top(t).pc) /\ Top(t).cb = c
     \/ /\ CanCall(t) /\ life[c] = "alive" /\ life'[c] \in {"dtor", "dead"}
        /\ Len(stack'[t]) >= Len(stack[t])

\* C19 as stated: a callback that has fired, inline or through the broadcast,
\* has a null source pointer, and its destructor never enters remove_callback.
C19_SourceClearedOnceFired ==
  \A c \in Nodes :
    (Fired(c) /\ life[c] \in {"alive", "dtor"}) =>
      (~cb[c].source /\ life[c] # "dtor")

\* C19 (amended): the source pointer is cleared only when the callback fires
\* inline at construction, and destroying such a callback changes nothing but
\* the callback itself; a callback that the broadcast popped keeps its source
\* pointer while it lives, and the steps of its destructor (remove_callback:
\* lock, read notifying, unlock, then set *removed or wait for completed)
\* leave the stop_requested flag, the list, the notifying thread and the
\* record of invocations unchanged.
C19_SourceClearedOnlyWhenFiredInline ==
  /\ [](\A c \in Nodes :
          /\ (fate[c] = "inline" /\ life[c] # "ctor") => ~cb[c].source
          /\ fate[c] = "inline" => life[c] # "dtor"
          /\ (fate[c] = "popped" /\ life[c] \in {"alive", "dtor"}) => cb[c].source)
  /\ [][\A c \in Nodes : \A t \in Threads :
          /\ (DtorStep(t, c) /\ fate[c] = "inline") =>
               UNCHANGED <<state, callbacks, notifying, cb, stack, order, inlined>>
          /\ (DtorStep(t, c) /\ fate[c] = "popped") =>
               /\ StopRequestedBit(state') = StopRequestedBit(state)
               /\ UNCHANGED <<callbacks, notifying, order, inlined, rs_true, rs_false>>
               /\ ListSeq' = ListSeq]_vars

\* after request_stop() returned true, the destructor of a callback that the
\* broadcast invoked and completed is inside remove_callback, holding the lock
C19_Witness ==
  \E c \in Nodes : \E t \in Threads :
    /\ fate[c] = "popped" /\ cb[c].completed
    /\ life[c] = "dtor"
    /\ At(t, "dtor", "remove") /\ Top(t).cb = c
    /\ LockedBit(state)
    /\ rs_true = 1


\* C20: a callback constructed from a token without source is never invoked
\* (not inline, not by a broadcast), is never linked, and its constructor and
\* its destructor are single steps that change nothing of the source (state
\* word, list, notifying thread), of the other nodes, of any call in progress
\* or of the record of invocations.
C20_UnassociatedCallback ==
  /\ [](\A c \in Nodes :
          fate[c] = "unassoc" =>
            /\ Invoked(c) = 0
            /\ ~cb[c].source
            /\ c \notin Range(ListSeq)
            /\ c \notin Range(reg_order)
            /\ life[c] \in {"alive", "dead"})
  /\ [][\A c \in Nodes :
          (fate'[c] = "unassoc" /\ life'[c] # life[c]) =>
            /\ UNCHANGED <<state, callbacks, notifying, stack, order, inlined,
                           reg_order, rs_true, rs_false>>
            /\ \A n \in Nodes \ {c} : cb'[n] = cb[n]]_vars

\* the first callback was constructed from a token without source, lived
\* through the start of a broadcast and was destroyed from a closure, and its
\* closure never ran
C20_Witness ==
  /\ fate[1] = "unassoc"
  /\ life[1] = "dead"
  /\ dtor_from[1] # Null
  /\ Len(order) >= 1
  /\ Invoked(1) = 0


\* t is in the try_lock(true) of a request_stop() call
RsTryLock(t) ==
  /\ ~Idle(t)
  /\ Top(t).op = "request_stop"
  /\ Top(t).pc \in {"try_lock", "try_lock_cas"}
\* the step is the call of request_stop() (with its first load of the state)
RsCallStep == StopsStarted' = StopsStarted + 1

\* C21: whenever a request_stop() call reads the state word in try_lock (the
\* first load, a reload after spinning, or the value a failed
\* compare_exchange returns) and the stop_requested flag is set, that very
\* step returns false and changes nothing: the call is never left waiting,
\* whether the lock bit is set or a closure of the broadcast is running.
C21_LoserReturnsAtOnce ==
  [][/\ (RsCallStep /\ StopRequestedBit(state)) =>
          /\ rs_false' = rs_false + 1
          /\ stack' = stack
          /\ state' = state
     /\ \A t \in Threads :
          (RsTryLock(t) /\ stack'[t] # stack[t] /\ StopRequestedBit(state)) =>
            /\ rs_false' = rs_false + 1
            /\ stack' = PopFrame(stack, t)
            /\ state' = state]_vars

\* a request_stop() call has returned false while the winner has not
\* returned: it runs a closure and callbacks are still in the list
C21_Witness ==
  /\ rs_false >= 1
  /\ rs_true = 0
  /\ callbacks # Null
  /\ \E t \in Threads : At(t, "request_stop", "closure")


\* the innermost call of t after the step
TopAfter(t) == stack'[t][Len(stack'[t])]
\* t is in the try_lock(false) of try_add_callback
CtorTryLock(t) ==
  /\ ~Idle(t)
  /\ Top(t).op = "ctor"
  /\ Top(t).pc \in {"try_lock", "try_lock_cas"}

\* C22: whenever try_add_callback reads the state word in try_lock (the
\* first load, a reload after spinning, or the value a failed
\* compare_exchange returns) and the stop_requested flag is set, with the
\* lock bit set or not, that very step makes it fail: register_callback is at
\* its fallback, and the state word, the list and the links of the nodes are
\* unchanged; and try_add_callback is left spinning only by a read of the
\* state word that found it locked and not requested.
C22_TryAddFailsAtOnce ==
  [][/\ \A c \in Nodes :
          (life[c] = "unborn" /\ life'[c] = "ctor" /\ StopRequestedBit(state)) =>
            /\ \E t \in Threads :
                 /\ Len(stack'[t]) = Len(stack[t]) + 1
                 /\ TopAfter(t).cb = c
                 /\ TopAfter(t).pc = "fallback"
            /\ UNCHANGED <<state, callbacks, reg_order>>
            /\ \A n \in Nodes \ {c} : cb'[n] = cb[n]
     /\ \A t \in Threads :
          (CtorTryLock(t) /\ stack'[t] # stack[t] /\ StopRequestedBit(state)) =>
            /\ TopAfter(t).pc = "fallback"
            /\ UNCHANGED <<state, callbacks, cb, reg_order>>
     /\ \A t \in Threads :
          (/\ stack'[t] # stack[t]
           /\ Len(stack'[t]) > 0
           /\ TopAfter(t).op = "ctor"
           /\ TopAfter(t).pc = "try_lock") =>
            state = locked_flag]_vars

\* a constructor that began while stop was requested is at the fallback of
\* register_callback, while the notifier, which has held the lock ever since
\* it set the flag, has not released it yet (state == locked|requested)
C22_Witness ==
  \E t, u \in Threads :
    /\ At(t, "ctor", "fallback")
    /\ born_stopped[Top(t).cb]
    /\ At(u, "request_stop", "notify")
    /\ state = locked_flag + stop_requested_flag


\* C23: a request_stop() call that reads the state word in try_lock and
\* finds it locked and not requested does not return and changes nothing: it
\* is left spinning in try_lock; when it reads 0 it goes on to the
\* compare_exchange, which on success sets locked|requested; a call in
\* try_lock only ever stays there, acquires the lock or returns false; and
\* whenever a request_stop() call is past try_lock and about to set the
\* notifying thread, pop a callback or finish, the lock bit is set and no
\* other thread holds the lock.
C23_RequestStopWaitsForLock ==
  /\ [][/\ (RsCallStep /\ state = locked_flag) =>
             /\ UNCHANGED <<state, callbacks, cb, order, inlined, rs_true, rs_false>>
             /\ \E t \in Threads :
                  /\ Len(stack'[t]) = Len(stack[t]) + 1
                  /\ TopAfter(t).op = "request_stop"
                  /\ TopAfter(t).pc = "try_lock"
        /\ \A t \in Threads :
             (RsTryLock(t) /\ stack'[t] # stack[t]) =>
               /\ state = locked_flag =>
                    /\ TopAfter(t).pc = "try_lock"
                    /\ Len(stack'[t]) = Len(stack[t])
                    /\ UNCHANGED <<state, callbacks, cb, order, inlined, rs_true, rs_false>>
               /\ (state = 0 /\ Top(t).pc = "try_lock") =>
                    (TopAfter(t).pc = "try_lock_cas" /\ state' = state)
               /\ (state = 0 /\ Top(t).pc = "try_lock_cas") =>
                    /\ TopAfter(t).pc = "notify"
                    /\ state' = locked_flag + stop_requested_flag
               /\ \/ stack' = PopFrame(stack, t) /\ rs_false' = rs_false + 1
                  \/ /\ Len(stack'[t]) = Len(stack[t])
                     /\ TopAfter(t).pc \in {"try_lock", "try_lock_cas", "notify"}]_vars
  /\ [](\A t \in Threads :
          (At(t, "request_stop", "notify") \/ At(t, "request_stop", "loop")) =>
            (LockedBit(state) /\ LockHolders = {t}))

\* a request_stop() call spins in try_lock while a constructor holds the lock
\* to link its node and stop is not requested
C23_Witness ==
  \E t, u \in Threads :
    /\ At(t, "request_stop", "try_lock")
    /\ At(u, "ctor", "add")
    /\ state = locked_flag


\* inplace_stop_source::~inplace_stop_source: what its two assertions test
source_dtor_asserts == ~LockedBit(state) /\ callbacks = Null
\* no call is in progress and every callback that was constructed has been
\* destroyed, or never had a source, or has fired
Quiescent ==
  /\ AllIdle
  /\ \A c \in Nodes :
       \/ life[c] \in {"unborn", "dead"}
       \/ fate[c] = "unassoc"
       \/ life[c] = "alive" /\ Fired(c)

\* C24: the step in which request_stop() returns true leaves the list empty
\* and the state word equal to stop_requested_flag (lock bit clear); the list
\* is empty and the flag set in every later state; and in every state in
\* which no call is in progress and every callback has been destroyed or has
\* fired, the assertions of the source's destructor hold (lock bit clear,
\* list empty).
C24_AfterRequestStopReturnsTrue ==
  /\ [][rs_true' = rs_true + 1 =>
          (callbacks' = Null /\ state' = stop_requested_flag)]_vars
  /\ [](rs_true >= 1 => (callbacks = Null /\ StopRequestedBit(state)))
  /\ [](Quiescent => source_dtor_asserts)

\* request_stop() has returned true after a broadcast to two callbacks that
\* are still alive; a third callback was unlinked by its destructor
C24_Witness ==
  /\ rs_true = 1
  /\ Quiescent
  /\ state = stop_requested_flag
  /\ Len(order) = 2
  /\ \A i \in 1..Len(order) : life[order[i]] = "alive"
  /\ \E d \in Nodes : fate[d] = "unlinked" /\ life[d] = "dead"


\* the frame d of t is the request_stop() call that invoked c and has not yet
\* gone past its test of removed_during_callback
InvokingFrame(t, d, c) ==
  /\ stack[t][d].op = "request_stop"
  /\ stack[t][d].cb = c
  /\ stack[t][d].pc \in {"closure", "post"}
\* t runs the destructor of the callback whose closure, invoked by the
\* broadcast, called it
SelfDtorInClosure(t) ==
  /\ DtorInBroadcastClosure(t)
  /\ stack[t][Depth(t) - 1].cb = Top(t).cb
\* c was popped by the broadcast and destroyed by its own closure
SelfDestroyed(c) == fate[c] = "popped" /\ life[c] = "dead" /\ dtor_from[c] = c

\* C25: the destructor of a callback, called on the notifying thread by the
\* callback's own closure during the broadcast, never waits for completed and
\* finds the lock bit set only while another thread is about to release it;
\* when it has returned, the notifier's removed_during_callback is true until
\* the notifier has tested it, the node's completed flag is never written
\* and its removed pointer never cleared; the notifier's step after the
\* closure writes no node and goes on to lock().
C25_SelfDestroyInClosure ==
  /\ [](\A t \in Threads :
          SelfDtorInClosure(t) =>
            /\ Top(t).pc # "wait"
            /\ LockedBit(state) =>
                 \/ Top(t).pc = "remove"
                 \/ \E u \in LockHolders : u # t)
  /\ [](\A c \in Nodes :
          SelfDestroyed(c) =>
            /\ ~cb[c].completed
            /\ cb[c].removed # NoFlag
            /\ \A t \in Threads : \A d \in 1..Depth(t) :
                 InvokingFrame(t, d, c) => stack[t][d].removed_during_callback)
  /\ [][\A t \in Threads :
          (/\ At(t, "request_stop", "post")
           /\ SelfDestroyed(Top(t).cb)
           /\ stack'[t] # stack[t]) =>
            /\ cb' = cb
            /\ ub' = ub
            /\ TopAfter(t).pc = "lock"]_vars

\* the closure of h destroyed h itself; the broadcast went on, invoked the
\* remaining callback r, and request_stop() returned true
C25_Witness ==
  \E h, r \in Nodes :
    /\ h # r
    /\ SelfDestroyed(h)
    /\ order = <<h, r>>
    /\ cb[r].completed
    /\ rs_true = 1


\* the step writes the list head, a next or previous_pointer link of a node,
\* or the notifying-thread field
WritesGuardedData ==
  \/ callbacks' # callbacks
  \/ notifying' # notifying
  \/ \E n \in Nodes :
       \/ cb'[n].next # cb[n].next
       \/ cb'[n].previous_pointer # cb[n].previous_pointer

WinnerFrames ==
  {<<t, d>> \in Threads \X (1..MaxDepth) :
     /\ d <= Depth(t)
     /\ stack[t][d].op = "request_stop"
     /\ stack[t][d].pc \notin {"try_lock", "try_lock_cas"}}
\* the request_stop() frames between the pop of a callback and the end of
\* the handling of its invocation
InvocationFrames ==
  {f \in WinnerFrames : stack[f[1]][f[2]].pc \in {"invoke", "closure", "post"}}

\* C27: at most one request_stop() call is ever past try_lock, so at most one
\* closure invoked by the broadcast is in progress at a time; the notifying
\* thread, once set, never changes and is the thread of that call; every
\* step that begins an invocation by the broadcast is a step of that call on
\* the notifying thread; and the step in which request_stop() returns true
\* is a step of the notifying thread, taken when no invocation is in
\* progress and every callback the broadcast invoked that was not destroyed
\* during its closure is marked completed.
C27_BroadcastOnWinnerThread ==
  /\ [](/\ Cardinality(WinnerFrames) <= 1
        /\ \A f \in WinnerFrames :
             stack[f[1]][f[2]].pc # "notify" => notifying = f[1]
        /\ (WinnerFrames # {} \/ order # <<>>) => rs_true + Cardinality(WinnerFrames) = 1)
  /\ [][/\ notifying # NoThread => notifying' = notifying
        /\ order' # order =>
             \E t \in Threads :
               /\ At(t, "request_stop", "invoke")
               /\ notifying = t
               /\ order' = Append(order, Top(t).cb)
               /\ TopAfter(t).pc = "closure"
               /\ InvocationFrames = {<<t, Depth(t)>>}
        /\ rs_true' = rs_true + 1 =>
             /\ stack' = PopFrame(stack, notifying)
             /\ InvocationFrames = {}
             /\ \A i \in 1..Len(order) :
                  \/ cb[order[i]].completed
                  \/ life[order[i]] = "dead"]_vars

\* the broadcast invoked every callback, request_stop() returned true on the
\* notifying thread, and the other thread got false
C27_Witness ==
  /\ rs_true = 1
  /\ rs_false >= 1
  /\ Len(order) = NumCallbacks
  /\ notifying \in Threads
  /\ AllIdle


\* C28: a wait() call yields iff at least 20 wait() calls were made on the
\* object before it: the first 20 calls do nothing, every later call yields,
\* also the call in which the 32-bit count wraps around and the calls after
\* it; after any call that yields the count is at least the threshold, so
\* the object never returns to the phase without yield.
C28_SpinloopYieldsAfterThreshold ==
  /\ [][spin' # spin =>
          /\ spin'.yielded <=> spin.calls >= 20
          /\ spin'.yielded => ~(spin'.hi = 0 /\ spin'.lo < 20)]_vars
  /\ [](spin.calls > 20 => ~(spin.hi = 0 /\ spin.lo < 20))

\* the count has wrapped around: the object started one call before the
\* wrap, the first call reset the count to the threshold, and the second call
\* yielded too
C28_Witness ==
  /\ spin.steps = 2
  /\ spin.hi = 0 /\ spin.lo = yield_threshold + 1
  /\ spin.yielded


\* C29: whenever the lock bit is not held the callback list is well-formed:
\* following next from the head ends at null without meeting a node twice,
\* the head node's previous_pointer addresses the source's list head, every
\* other listed node's previous_pointer addresses its predecessor (so that
\* the slot it addresses holds the node itself), the nodes in the list are
\* exactly the callbacks that were registered and neither popped nor
\* removed, each once, and a node popped by the broadcast has
\* previous_pointer == null.
C29_ListWellFormedWhenUnlocked ==
  ~LockedBit(state) =>
    /\ Len(ListSeq) <= NumCallbacks
    /\ \A i, j \in 1..Len(ListSeq) : ListSeq[i] = ListSeq[j] => i = j
    /\ \A i \in 1..Len(ListSeq) :
         LET c == ListSeq[i] IN
           /\ cb[c].previous_pointer = IF i = 1 THEN HeadSlot ELSE ListSeq[i - 1]
           /\ IF cb[c].previous_pointer = HeadSlot THEN callbacks = c
              ELSE cb[cb[c].previous_pointer].next = c
    /\ Range(ListSeq) = {c \in Nodes : Listed(c)}
    /\ \A c \in Nodes : fate[c] = "popped" => cb[c].previous_pointer = Null

\* the lock is free, the broadcast has popped one node and two more are
\* still in the list
C29_Witness ==
  /\ ~LockedBit(state)
  /\ Len(ListSeq) = 2
  /\ \E c \in Nodes : fate[c] = "popped" /\ life[c] = "alive"


\* C30: once the stop_requested flag is set no node is inserted into the
\* list again: a step taken with the flag set leaves the flag set, adds no
\* node to the list and registers no callback, so the set of listed nodes
\* can only shrink (by pops of the broadcast and by removals).
C30_NoInsertAfterStopRequested ==
  [][StopRequestedBit(state) =>
       /\ StopRequestedBit(state')
       /\ Range(ListSeq') \subseteq Range(ListSeq)
       /\ \A c \in Nodes : Listed(c)' => Listed(c)
       /\ reg_order' = reg_order]_vars

\* the broadcast is under way: one node is popped, one is still in the list,
\* and a registration made after the flag was set has run its closure inline
\* without entering the list
C30_Witness ==
  /\ StopRequestedBit(state)
  /\ \E p, l, n \in Nodes :
       /\ fate[p] = "popped"
       /\ fate[l] = "listed" /\ l \in Range(ListSeq)
       /\ fate[n] = "inline" /\ ~born_stopped[n] /\ n \notin Range(reg_order)

====
